---- MODULE Spec2Model ----
(***************************************************************************)
(* A model of pydantic-explain: the path formatter (_format_loc), the      *)
(* error normalizer (explain), the dict conversion (ErrorDetail.to_dict),  *)
(* the query layer (filter_errors, group_errors, count_errors) and the two *)
(* renderers (format_errors, format_errors_rich).                          *)
(*                                                                         *)
(* A Python str is a sequence of one-character strings, so that            *)
(* concatenation, length, slicing and searching are those of the code.     *)
(* A Python object (a location segment, an input value) is a record        *)
(* [t, n, s]: t names the Python type, n holds an int or bool payload and  *)
(* s a str payload.                                                        *)
(***************************************************************************)
EXTENDS Integers, Sequences, FiniteSets, TLC

VARIABLES
    returned,  \* the names of the functions that were called and have returned
    loc,       \* _format_loc: the location tuple passed in
    path,      \* _format_loc: the returned str
    error,     \* the pydantic ValidationError: [title, errors], errors() being a sequence of raw records
    details,   \* explain: the returned tuple of ErrorDetail
    detail,    \* ErrorDetail.to_dict: the record to_dict is called on
    dict,      \* ErrorDetail.to_dict: the returned dict
    errors,    \* query layer: the tuple of ErrorDetail passed in
    crit,      \* filter_errors: [error_type, path_pattern], each [given, s]
    result,    \* filter_errors: [raised, value], the returned tuple or the raised re.error
    groups,    \* group_errors: the returned dict, [keys, vals]
    counts,    \* count_errors: the returned dict, [keys, vals]
    options,   \* renderers: [given, opts], the options argument
    report,    \* format_errors: the returned str
    console,   \* format_errors_rich: what the console has printed, styles removed
    obj,       \* _truncate_repr: the value passed in
    limit,     \* _truncate_repr: the max_length passed in
    truncated, \* _truncate_repr: the returned str
    formatted, \* format_error_detail: the returned str
    heap,      \* the dict objects alive, by address: the context of the ErrorDetail, then the dicts to_dict returned
    snaps,     \* what each call of to_dict returned, as it was on return
    attempt,   \* the last assignment to an attribute: [target, name, raised]
    frames     \* concurrent calls: the frame of the call each thread is in

vars == <<returned, loc, path, error, details, detail, dict, errors, crit, result,
          groups, counts, options, report, console, obj, limit, truncated, formatted,
          heap, snaps, attempt, frames>>

\* the variables of a call of _truncate_repr on its own
truncVars == <<obj, limit, truncated>>

\* the variables of the objects a caller holds on to
objVars == <<heap, snaps, attempt>>

----------------------------------------------------------------------------
(* Bounds of the model *)

MaxLoc == 3
MaxErrors == 2
MaxSeq == 3

----------------------------------------------------------------------------
(* Python str *)

\* "".join(parts)
RECURSIVE Join(_)
Join(parts) ==
    IF parts = <<>> THEN <<>> ELSE Head(parts) \o Join(Tail(parts))

\* sep.join(parts)
RECURSIVE JoinSep(_, _)
JoinSep(sep, parts) ==
    IF parts = <<>> THEN <<>>
    ELSE IF Len(parts) = 1 THEN Head(parts)
    ELSE Head(parts) \o sep \o JoinSep(sep, Tail(parts))

Digit(d) == <<"0", "1", "2", "3", "4", "5", "6", "7", "8", "9">>[d + 1]

\* str(n) of a non-negative int: its decimal digits
RECURSIVE IntStr(_)
IntStr(n) ==
    IF n < 10 THEN <<Digit(n)>> ELSE IntStr(n \div 10) \o <<Digit(n % 10)>>

\* s[:k]
Prefix(s, k) ==
    IF k >= Len(s) THEN s
    ELSE IF k >= 0 THEN SubSeq(s, 1, k)
    ELSE IF Len(s) + k > 0 THEN SubSeq(s, 1, Len(s) + k)
    ELSE <<>>

----------------------------------------------------------------------------
(* Python objects *)

Obj(t, n, s) == [t |-> t, n |-> n, s |-> s]
PyNone == Obj("NoneType", 0, <<>>)
PyInt(n) == Obj("int", n, <<>>)
PyBool(b) == Obj("bool", IF b THEN 1 ELSE 0, <<>>)
PyStr(s) == Obj("str", 0, s)
PyList == Obj("list", 0, <<>>)      \* the empty list []
PyDict == Obj("dict", 0, <<>>)      \* the empty dict {}

\* isinstance(x, int): bool is a subclass of int
IsInstanceInt(x) == x.t \in {"int", "bool"}

----------------------------------------------------------------------------
(* _explain.py: the path formatter *)

ROOT == <<"<", "r", "o", "o", "t", ">">>
ALL == <<"_", "_", "a", "l", "l", "_", "_">>

\* FormatLocStep with the separator put before every token that is not the first
FormatLocStep_DotEverywhere(parts, segment) ==
    LET token == IF IsInstanceInt(segment) THEN <<"[">> \o IntStr(segment.n) \o <<"]">>
                 ELSE IF segment.s = ALL THEN <<"[", "*", "]">>
                 ELSE segment.s
    IN IF parts # <<>> THEN Append(parts, <<".">> \o token) ELSE Append(parts, token)

\* the body of the for loop: one segment appended to parts
FormatLocStep(parts, segment) ==
    IF IsInstanceInt(segment)
    THEN Append(parts, <<"[">> \o IntStr(segment.n) \o <<"]">>)
    ELSE IF segment.s = ALL
    THEN Append(parts, <<"[", "*", "]">>)
    ELSE IF parts # <<>>
    THEN Append(parts, <<".">> \o segment.s)
    ELSE Append(parts, segment.s)

\* the for loop over loc, from segment i on
RECURSIVE FormatLocLoop(_, _, _)
FormatLocLoop(l, i, parts) ==
    IF i > Len(l) THEN parts
    ELSE FormatLocLoop(l, i + 1, FormatLocStep(parts, l[i]))

\* _format_loc without the placeholder: "" for the empty location
_format_loc_NoRoot(l) == Join(FormatLocLoop(l, 1, <<>>))

_format_loc(l) ==
    IF l = <<>> THEN ROOT
    ELSE Join(FormatLocLoop(l, 1, <<>>))

----------------------------------------------------------------------------
(* Python dict, as a function from its keys *)

\* d.get(k, default)
DictGet(d, k, default) == IF k \in DOMAIN d THEN d[k] ELSE default

\* d[k] = v
DictSet(d, k, v) == [x \in DOMAIN d \cup {k} |-> IF x = k THEN v ELSE d[x]]

\* x == y on objects: an int and a bool are equal when their numbers are
PyEq(x, y) ==
    IF IsInstanceInt(x) /\ IsInstanceInt(y) THEN x.n = y.n ELSE x = y

----------------------------------------------------------------------------
(* _types.py: ErrorDetail *)

ErrorDetail(p, message, error_type, input_value, context, url) ==
    [path |-> p, message |-> message, error_type |-> error_type,
     input_value |-> input_value, context |-> context, url |-> url]

\* the generated __eq__ of the dataclass: the fields compared in order
DetailEq(a, b) ==
    /\ a.path = b.path
    /\ a.message = b.message
    /\ a.error_type = b.error_type
    /\ PyEq(a.input_value, b.input_value)
    /\ a.context = b.context
    /\ a.url = b.url

\* bool(x) of an object
Truthy(x) ==
    IF x.t = "NoneType" THEN FALSE
    ELSE IF IsInstanceInt(x) THEN x.n # 0
    ELSE IF x.t = "str" THEN x.s # <<>>
    ELSE FALSE

\* to_dict with the input tested for truth, as context and url are
to_dict_Truthy(self) ==
    LET r0 == [path |-> self.path, message |-> self.message,
               error_type |-> self.error_type]
        r1 == IF Truthy(self.input_value)
              THEN DictSet(r0, "input_value", self.input_value) ELSE r0
        r2 == IF DOMAIN self.context # {}
              THEN DictSet(r1, "context", self.context) ELSE r1
        r3 == IF self.url # <<>>
              THEN DictSet(r2, "url", self.url) ELSE r2
    IN r3

to_dict(self) ==
    LET r0 == [path |-> self.path, message |-> self.message,
               error_type |-> self.error_type]
        r1 == IF self.input_value # PyNone
              THEN DictSet(r0, "input_value", self.input_value) ELSE r0
        r2 == IF DOMAIN self.context # {}
              THEN DictSet(r1, "context", self.context) ELSE r1
        r3 == IF self.url # <<>>
              THEN DictSet(r2, "url", self.url) ELSE r2
    IN r3

----------------------------------------------------------------------------
(* _types.py: the objects as Python keeps them.  A dict is an object of its  *)
(* own: a field or a dict entry holds a reference Ref(a) to it, a being its  *)
(* address in the heap, and every holder of the reference sees what is       *)
(* written through any of them.                                              *)

Ref(a) == [ref |-> a]

\* obj.name = v on a plain class: the attribute is set
setattr_Plain(o, name, v) == [raised |-> FALSE, obj |-> [o EXCEPT ![name] = v]]

\* obj.name = v on a dataclass with frozen=True: the generated __setattr__
\* raises FrozenInstanceError for every name; [raised, obj]
setattr(o, name, v) == [raised |-> TRUE, obj |-> o]

\* the ErrorDetail self with its context read from the heap h
DeepDetail(self, h) == [self EXCEPT !.context = h[self.context.ref]]

\* the dict d with the dict under "context" read from the heap h
DeepDict(d, h) ==
    [k \in DOMAIN d |-> IF k = "context" THEN h[d[k].ref] ELSE d[k]]

\* to_dict of an ErrorDetail whose context is a reference: result["context"]
\* is self.context, the reference itself
ToDictRef(self, h) ==
    LET r == to_dict(DeepDetail(self, h))
    IN IF "context" \in DOMAIN r THEN DictSet(r, "context", self.context) ELSE r

----------------------------------------------------------------------------
(* _explain.py: the error normalizer *)

\* ExplainRecord with err.get("ctx"), None standing for a missing ctx
ExplainRecord_CtxNone(err) ==
    ErrorDetail(_format_loc(err["loc"]), err["msg"], err["type"],
                DictGet(err, "input", PyNone),
                DictGet(err, "ctx", PyNone),
                DictGet(err, "url", <<>>))

\* the ErrorDetail built from one record of error.errors()
ExplainRecord(err) ==
    ErrorDetail(_format_loc(err["loc"]), err["msg"], err["type"],
                DictGet(err, "input", PyNone),
                DictGet(err, "ctx", <<>>),
                DictGet(err, "url", <<>>))

\* explain with the records taken last to first
explain_Reversed(e) ==
    [i \in 1..Len(e.errors) |-> ExplainRecord(e.errors[Len(e.errors) + 1 - i])]

explain(e) == [i \in 1..Len(e.errors) |-> ExplainRecord(e.errors[i])]

----------------------------------------------------------------------------
(* Python re, for the patterns made of literals, escaped characters, ".",    *)
(* "^", "$" and character sets; quantifiers, groups and alternation are not  *)
(* among the modelled patterns.                                              *)

Atom(kind, cs) == [kind |-> kind, cs |-> cs]

\* the index of the first "]" of p after position i, 0 when there is none
RECURSIVE SetEnd(_, _)
SetEnd(p, i) ==
    IF i > Len(p) THEN 0
    ELSE IF p[i] = "]" THEN i
    ELSE SetEnd(p, i + 1)

\* re.compile(p) from position i on: [ok, atoms]; ok is FALSE when re.error is raised
RECURSIVE Compile(_, _, _)
Compile(p, i, atoms) ==
    IF i > Len(p) THEN [ok |-> TRUE, atoms |-> atoms]
    ELSE IF p[i] = "\\"
    THEN IF i = Len(p) THEN [ok |-> FALSE, atoms |-> <<>>]
         ELSE Compile(p, i + 2, Append(atoms, Atom("lit", {p[i + 1]})))
    ELSE IF p[i] = "["
    THEN IF SetEnd(p, i + 2) = 0 THEN [ok |-> FALSE, atoms |-> <<>>]
         ELSE Compile(p, SetEnd(p, i + 2) + 1,
                      Append(atoms, Atom("lit", {p[j] : j \in (i + 1)..(SetEnd(p, i + 2) - 1)})))
    ELSE IF p[i] = "^" THEN Compile(p, i + 1, Append(atoms, Atom("bol", {})))
    ELSE IF p[i] = "$" THEN Compile(p, i + 1, Append(atoms, Atom("eol", {})))
    ELSE IF p[i] = "." THEN Compile(p, i + 1, Append(atoms, Atom("any", {})))
    ELSE Compile(p, i + 1, Append(atoms, Atom("lit", {p[i]})))

re_compile(p) == Compile(p, 1, <<>>)

\* the atoms from k on match s with pos characters already consumed
RECURSIVE MatchAt(_, _, _, _)
MatchAt(atoms, k, s, pos) ==
    IF k > Len(atoms) THEN TRUE
    ELSE IF atoms[k].kind = "bol"
    THEN pos = 0 /\ MatchAt(atoms, k + 1, s, pos)
    ELSE IF atoms[k].kind = "eol"
    THEN /\ \/ pos = Len(s)
            \/ pos = Len(s) - 1 /\ s[Len(s)] = "\n"
         /\ MatchAt(atoms, k + 1, s, pos)
    ELSE /\ pos < Len(s)
         /\ IF atoms[k].kind = "any" THEN s[pos + 1] # "\n"
            ELSE s[pos + 1] \in atoms[k].cs
         /\ MatchAt(atoms, k + 1, s, pos + 1)

\* compiled.match(s): the pattern looked for at the start of s only
re_search_Match(atoms, s) == MatchAt(atoms, 1, s, 0)

\* compiled.search(s) finds a match
re_search(atoms, s) == \E pos \in 0..Len(s) : MatchAt(atoms, 1, s, pos)

\* SplitFirst cutting at "." only
RECURSIVE SplitFirst_DotOnly(_, _)
SplitFirst_DotOnly(s, i) ==
    IF i > Len(s) THEN s
    ELSE IF s[i] = "." THEN SubSeq(s, 1, i - 1)
    ELSE SplitFirst_DotOnly(s, i + 1)

\* re.split(r"[.\[]", s, maxsplit=1)[0], looking from position i on
RECURSIVE SplitFirst(_, _)
SplitFirst(s, i) ==
    IF i > Len(s) THEN s
    ELSE IF s[i] \in {".", "["} THEN SubSeq(s, 1, i - 1)
    ELSE SplitFirst(s, i + 1)

----------------------------------------------------------------------------
(* _filter.py: the query layer *)

\* FilterType testing the records from the second one on, the first one always kept
FilterType_FromSecond(es, error_type) ==
    IF es = <<>> THEN <<>>
    ELSE <<Head(es)>> \o SelectSeq(Tail(es), LAMBDA e : e.error_type = error_type)

\* tuple(e for e in es if e.error_type == error_type)
RECURSIVE FilterType(_, _)
FilterType(es, error_type) ==
    IF es = <<>> THEN <<>>
    ELSE IF Head(es).error_type = error_type
    THEN <<Head(es)>> \o FilterType(Tail(es), error_type)
    ELSE FilterType(Tail(es), error_type)

\* tuple(e for e in es if compiled.search(e.path))
RECURSIVE FilterPath(_, _)
FilterPath(es, compiled) ==
    IF es = <<>> THEN <<>>
    ELSE IF re_search(compiled, Head(es).path)
    THEN <<Head(es)>> \o FilterPath(Tail(es), compiled)
    ELSE FilterPath(Tail(es), compiled)

\* filter_errors with the type filter run also when error_type is None
filter_errors_TypeAlways(es, error_type, path_pattern) ==
    LET r1 == FilterType(es, error_type.s)
    IN IF ~path_pattern.given THEN [raised |-> FALSE, value |-> r1]
       ELSE IF ~re_compile(path_pattern.s).ok THEN [raised |-> TRUE, value |-> <<>>]
       ELSE [raised |-> FALSE,
             value |-> FilterPath(r1, re_compile(path_pattern.s).atoms)]

\* filter_errors reading the first record before filtering: an IndexError on an empty tuple
filter_errors_FirstRecord(es, error_type, path_pattern) ==
    LET r1 == IF error_type.given THEN FilterType(es, error_type.s) ELSE es
    IN IF es = <<>> THEN [raised |-> TRUE, value |-> <<>>]
       ELSE IF ~path_pattern.given THEN [raised |-> FALSE, value |-> r1]
       ELSE IF ~re_compile(path_pattern.s).ok THEN [raised |-> TRUE, value |-> <<>>]
       ELSE [raised |-> FALSE,
             value |-> FilterPath(r1, re_compile(path_pattern.s).atoms)]

\* filter_errors catching re.error and returning what the type filter kept
filter_errors_Swallow(es, error_type, path_pattern) ==
    LET r1 == IF error_type.given THEN FilterType(es, error_type.s) ELSE es
    IN IF ~path_pattern.given THEN [raised |-> FALSE, value |-> r1]
       ELSE IF ~re_compile(path_pattern.s).ok THEN [raised |-> FALSE, value |-> r1]
       ELSE [raised |-> FALSE,
             value |-> FilterPath(r1, re_compile(path_pattern.s).atoms)]

\* filter_errors with the path filter run on errors, not on the result of the type filter
filter_errors_PathOnInput(es, error_type, path_pattern) ==
    LET r1 == IF error_type.given THEN FilterType(es, error_type.s) ELSE es
    IN IF ~path_pattern.given THEN [raised |-> FALSE, value |-> r1]
       ELSE IF ~re_compile(path_pattern.s).ok THEN [raised |-> TRUE, value |-> <<>>]
       ELSE [raised |-> FALSE,
             value |-> FilterPath(es, re_compile(path_pattern.s).atoms)]

\* filter_errors: [raised, value]; raised when re.compile raises re.error
filter_errors(es, error_type, path_pattern) ==
    LET r1 == IF error_type.given THEN FilterType(es, error_type.s) ELSE es
    IN IF ~path_pattern.given THEN [raised |-> FALSE, value |-> r1]
       ELSE IF ~re_compile(path_pattern.s).ok THEN [raised |-> TRUE, value |-> <<>>]
       ELSE [raised |-> FALSE,
             value |-> FilterPath(r1, re_compile(path_pattern.s).atoms)]

\* GroupStep with the record put at the front of its group
GroupStep_Prepend(g, e) ==
    LET prefix == SplitFirst(e.path, 1)
    IN IF prefix \in DOMAIN g.vals
       THEN [keys |-> g.keys, vals |-> DictSet(g.vals, prefix, <<e>> \o g.vals[prefix])]
       ELSE [keys |-> Append(g.keys, prefix), vals |-> DictSet(g.vals, prefix, <<e>>)]

\* GroupStep leaving out a record that is equal to one already in its group
GroupStep_Once(g, e) ==
    LET prefix == SplitFirst(e.path, 1)
    IN IF prefix \in DOMAIN g.vals
       THEN IF \E k \in 1..Len(g.vals[prefix]) : g.vals[prefix][k] = e THEN g
            ELSE [keys |-> g.keys, vals |-> DictSet(g.vals, prefix, Append(g.vals[prefix], e))]
       ELSE [keys |-> Append(g.keys, prefix), vals |-> DictSet(g.vals, prefix, <<e>>)]

\* groups.setdefault(prefix, []).append(error), the dict keeping its keys in insertion order
GroupStep(g, e) ==
    LET prefix == SplitFirst(e.path, 1)
    IN IF prefix \in DOMAIN g.vals
       THEN [keys |-> g.keys, vals |-> DictSet(g.vals, prefix, Append(g.vals[prefix], e))]
       ELSE [keys |-> Append(g.keys, prefix), vals |-> DictSet(g.vals, prefix, <<e>>)]

RECURSIVE GroupLoop(_, _, _)
GroupLoop(es, i, g) ==
    IF i > Len(es) THEN g ELSE GroupLoop(es, i + 1, GroupStep(g, es[i]))

\* group_errors starting from a dict that already has an empty "<root>" group
group_errors_RootGroup(es) ==
    GroupLoop(es, 1, [keys |-> <<ROOT>>, vals |-> [k \in {ROOT} |-> <<>>]])

group_errors(es) == GroupLoop(es, 1, [keys |-> <<>>, vals |-> <<>>])

\* CountStep with the count set to 1, not raised by 1
CountStep_SetOne(c, e) ==
    LET prefix == SplitFirst(e.path, 1)
    IN IF prefix \in DOMAIN c.vals
       THEN [keys |-> c.keys, vals |-> DictSet(c.vals, prefix, 1)]
       ELSE [keys |-> Append(c.keys, prefix), vals |-> DictSet(c.vals, prefix, 1)]

\* prefix_counter[prefix] += 1, a missing key of a Counter counting 0
CountStep(c, e) ==
    LET prefix == SplitFirst(e.path, 1)
    IN IF prefix \in DOMAIN c.vals
       THEN [keys |-> c.keys, vals |-> DictSet(c.vals, prefix, c.vals[prefix] + 1)]
       ELSE [keys |-> Append(c.keys, prefix), vals |-> DictSet(c.vals, prefix, 0 + 1)]

RECURSIVE CountLoop(_, _, _)
CountLoop(es, i, c) ==
    IF i > Len(es) THEN c ELSE CountLoop(es, i + 1, CountStep(c, es[i]))

count_errors(es) == CountLoop(es, 1, [keys |-> <<>>, vals |-> <<>>])

----------------------------------------------------------------------------
(* _types.py: FormatOptions *)

FormatOptions(show_input, show_url, show_error_type, input_max_length) ==
    [show_input |-> show_input, show_url |-> show_url,
     show_error_type |-> show_error_type, input_max_length |-> input_max_length]

DefaultInputMaxLength == 80

\* FormatOptions() with show_url set
DefaultOptions_ShowUrl == FormatOptions(TRUE, TRUE, FALSE, DefaultInputMaxLength)

\* FormatOptions()
DefaultOptions == FormatOptions(TRUE, FALSE, FALSE, DefaultInputMaxLength)

\* options or FormatOptions(): an instance is always truthy, None is not
OptionsOrDefault(o) == IF o.given THEN o.opts ELSE DefaultOptions

----------------------------------------------------------------------------
(* _format.py: the text renderer *)

\* repr(value) of the modelled objects; the modelled strings hold no quote,
\* backslash or unprintable character, so repr only puts them in quotes
repr(value) ==
    IF value.t = "NoneType" THEN <<"N", "o", "n", "e">>
    ELSE IF value.t = "int" THEN IntStr(value.n)
    ELSE IF value.t = "bool"
    THEN IF value.n = 1 THEN <<"T", "r", "u", "e">> ELSE <<"F", "a", "l", "s", "e">>
    ELSE IF value.t = "str" THEN <<"'">> \o value.s \o <<"'">>
    ELSE IF value.t = "list" THEN <<"[", "]">>
    ELSE <<"{", "}">>

_truncate_repr(value, max_length) ==
    LET r == repr(value)
    IN IF Len(r) <= max_length THEN r
       ELSE Prefix(r, max_length - 3) \o <<".", ".", ".">>

\* the error type "missing"
MISSING == <<"m", "i", "s", "s", "i", "n", "g">>

Indent2 == <<" ", " ">>
Indent4 == <<" ", " ", " ", " ">>
GotLabel == Indent4 \o <<"G", "o", "t", ":", " ">>
SeeLabel == Indent4 \o <<"S", "e", "e", ":", " ">>
MissingMark == <<"(", "m", "i", "s", "s", "i", "n", "g", ")">>
NL == <<"\n">>

\* DetailLines with the input line of a missing field written whatever show_input is
DetailLines_MissingAlways(d, opts) ==
    LET message == IF opts.show_error_type
                   THEN d.message \o <<" ", "[">> \o d.error_type \o <<"]">>
                   ELSE d.message
        l2 == <<Indent2 \o d.path, Indent4 \o message>>
        l3 == IF d.error_type = MISSING
              THEN Append(l2, GotLabel \o MissingMark)
              ELSE IF opts.show_input
              THEN Append(l2, GotLabel \o _truncate_repr(d.input_value, opts.input_max_length))
              ELSE l2
        l4 == IF opts.show_url /\ d.url # <<>>
              THEN Append(l3, SeeLabel \o d.url)
              ELSE l3
    IN l4

\* DetailLines with the missing mark chosen by the input being None, not by the error type
DetailLines_NoneAsMissing(d, opts) ==
    LET message == IF opts.show_error_type
                   THEN d.message \o <<" ", "[">> \o d.error_type \o <<"]">>
                   ELSE d.message
        l2 == <<Indent2 \o d.path, Indent4 \o message>>
        l3 == IF opts.show_input
              THEN IF d.input_value = PyNone
                   THEN Append(l2, GotLabel \o MissingMark)
                   ELSE Append(l2, GotLabel \o _truncate_repr(d.input_value, opts.input_max_length))
              ELSE l2
        l4 == IF opts.show_url /\ d.url # <<>>
              THEN Append(l3, SeeLabel \o d.url)
              ELSE l3
    IN l4

\* the lines list of format_error_detail
DetailLines(d, opts) ==
    LET message == IF opts.show_error_type
                   THEN d.message \o <<" ", "[">> \o d.error_type \o <<"]">>
                   ELSE d.message
        l2 == <<Indent2 \o d.path, Indent4 \o message>>
        l3 == IF opts.show_input
              THEN IF d.error_type = MISSING
                   THEN Append(l2, GotLabel \o MissingMark)
                   ELSE Append(l2, GotLabel \o _truncate_repr(d.input_value, opts.input_max_length))
              ELSE l2
        l4 == IF opts.show_url /\ d.url # <<>>
              THEN Append(l3, SeeLabel \o d.url)
              ELSE l3
    IN l4

format_error_detail(d, o) == JoinSep(NL, DetailLines(d, OptionsOrDefault(o)))

\* Plural with the singular for no error too
Plural_UpToOne(count) ==
    IF count <= 1 THEN <<"e", "r", "r", "o", "r">> ELSE <<"e", "r", "r", "o", "r", "s">>

\* "error" if count == 1 else "errors"
Plural(count) ==
    IF count = 1 THEN <<"e", "r", "r", "o", "r">> ELSE <<"e", "r", "r", "o", "r", "s">>

ValidationFailed ==
    <<"V", "a", "l", "i", "d", "a", "t", "i", "o", "n", " ", "f", "a", "i", "l", "e", "d">>

\* f" for {error.title} with {count} {plural}"
HeaderTail(title, count) ==
    <<" ", "f", "o", "r", " ">> \o title \o <<" ", "w", "i", "t", "h", " ">>
        \o IntStr(count) \o <<" ">> \o Plural(count)

\* ReportLoop with the empty line put after each block, not before it
RECURSIVE ReportLoop_BlankAfter(_, _, _, _)
ReportLoop_BlankAfter(ds, i, opts, lines) ==
    IF i > Len(ds) THEN lines
    ELSE ReportLoop_BlankAfter(ds, i + 1, opts,
            lines \o << format_error_detail(ds[i], [given |-> TRUE, opts |-> opts]), <<>> >>)

\* the for loop of format_errors over details, from detail i on
RECURSIVE ReportLoop(_, _, _, _)
ReportLoop(ds, i, opts, lines) ==
    IF i > Len(ds) THEN lines
    ELSE ReportLoop(ds, i + 1, opts,
                    lines \o << <<>>, format_error_detail(ds[i], [given |-> TRUE, opts |-> opts]) >>)

format_errors(e, o) ==
    LET ds == explain(e)
        opts == OptionsOrDefault(o)
        lines == << ValidationFailed \o HeaderTail(e.title, Len(ds)) >>
    IN JoinSep(NL, ReportLoop(ds, 1, opts, lines))

----------------------------------------------------------------------------
(* _rich.py: the styled renderer.  A rich Text is the sequence of its spans  *)
(* [text, style]; the console is the sequence of the Texts printed to it,    *)
(* each print writing the spans of its Text and a newline, the console being *)
(* wide enough to wrap no line.                                              *)

Span(text, style) == [text |-> text, style |-> style]

\* Text.plain: the text with its styles removed
RECURSIVE Plain(_)
Plain(text) == IF text = <<>> THEN <<>> ELSE Head(text).text \o Plain(Tail(text))

\* RichDetail with the url line printed for an empty url too
RichDetail_EmptyUrl(d, opts) ==
    LET p0 == << <<>>, <<Span(Indent2 \o d.path, "bold cyan")>> >>
        msg_text == IF opts.show_error_type
                    THEN <<Span(Indent4 \o d.message \o <<" ">>, ""),
                           Span(<<"[">> \o d.error_type \o <<"]">>, "dim")>>
                    ELSE <<Span(Indent4 \o d.message, "")>>
        p1 == Append(p0, msg_text)
        p2 == IF opts.show_input
              THEN IF d.error_type = MISSING
                   THEN Append(p1, <<Span(GotLabel, ""), Span(MissingMark, "yellow")>>)
                   ELSE Append(p1, <<Span(GotLabel, ""),
                                     Span(_truncate_repr(d.input_value, opts.input_max_length),
                                          "yellow")>>)
              ELSE p1
        p3 == IF opts.show_url
              THEN Append(p2, <<Span(SeeLabel, ""), Span(d.url, "blue underline")>>)
              ELSE p2
    IN p3

\* RichDetail with no space between the message and the error type tag
RichDetail_NoSpace(d, opts) ==
    LET p0 == << <<>>, <<Span(Indent2 \o d.path, "bold cyan")>> >>
        msg_text == IF opts.show_error_type
                    THEN <<Span(Indent4 \o d.message, ""),
                           Span(<<"[">> \o d.error_type \o <<"]">>, "dim")>>
                    ELSE <<Span(Indent4 \o d.message, "")>>
        p1 == Append(p0, msg_text)
        p2 == IF opts.show_input
              THEN IF d.error_type = MISSING
                   THEN Append(p1, <<Span(GotLabel, ""), Span(MissingMark, "yellow")>>)
                   ELSE Append(p1, <<Span(GotLabel, ""),
                                     Span(_truncate_repr(d.input_value, opts.input_max_length),
                                          "yellow")>>)
              ELSE p1
        p3 == IF opts.show_url /\ d.url # <<>>
              THEN Append(p2, <<Span(SeeLabel, ""), Span(d.url, "blue underline")>>)
              ELSE p2
    IN p3

\* the prints of one pass of the for loop of format_errors_rich
RichDetail(d, opts) ==
    LET p0 == << <<>>, <<Span(Indent2 \o d.path, "bold cyan")>> >>
        msg_text == IF opts.show_error_type
                    THEN <<Span(Indent4 \o d.message \o <<" ">>, ""),
                           Span(<<"[">> \o d.error_type \o <<"]">>, "dim")>>
                    ELSE <<Span(Indent4 \o d.message, "")>>
        p1 == Append(p0, msg_text)
        p2 == IF opts.show_input
              THEN IF d.error_type = MISSING
                   THEN Append(p1, <<Span(GotLabel, ""), Span(MissingMark, "yellow")>>)
                   ELSE Append(p1, <<Span(GotLabel, ""),
                                     Span(_truncate_repr(d.input_value, opts.input_max_length),
                                          "yellow")>>)
              ELSE p1
        p3 == IF opts.show_url /\ d.url # <<>>
              THEN Append(p2, <<Span(SeeLabel, ""), Span(d.url, "blue underline")>>)
              ELSE p2
    IN p3

RECURSIVE RichLoop(_, _, _, _)
RichLoop(ds, i, opts, con) ==
    IF i > Len(ds) THEN con
    ELSE RichLoop(ds, i + 1, opts, con \o RichDetail(ds[i], opts))

\* format_errors_rich: the console after the call, con being the console before
format_errors_rich(e, o, con) ==
    LET opts == OptionsOrDefault(o)
        ds == explain(e)
        header == <<Span(ValidationFailed, "bold red"),
                    Span(HeaderTail(e.title, Len(ds)), "")>>
    IN RichLoop(ds, 1, opts, Append(con, header))

\* what the console has written, styles removed
RECURSIVE ConsoleOutput(_)
ConsoleOutput(con) ==
    IF con = <<>> THEN <<>> ELSE Plain(Head(con)) \o NL \o ConsoleOutput(Tail(con))

----------------------------------------------------------------------------
(* The inputs of _format_loc *)

NameA == <<"a">>
NameB == <<"b">>
Names == {NameA, NameB, <<"a", ".", "b">>, <<>>, ROOT, <<"[", "1", "]">>}
Indices == {0, 1, 12}
Segments == {PyInt(n) : n \in Indices} \cup {PyStr(ALL)} \cup {PyStr(s) : s \in Names}

\* the tuples over S of length at most n
TuplesUpTo(S, n) == UNION {[1..k -> S] : k \in 0..n}

Locs == TuplesUpTo(Segments, MaxLoc)

----------------------------------------------------------------------------
(* The values a variable holds while its operation has not been called *)

NoError == [title |-> <<>>, errors |-> <<>>]
NoDetail == [path |-> <<>>, message |-> <<>>, error_type |-> <<>>,
             input_value |-> PyNone, context |-> <<>>, url |-> <<>>]
NoCrit == [error_type |-> [given |-> FALSE, s |-> <<>>],
           path_pattern |-> [given |-> FALSE, s |-> <<>>]]
EmptyDict == [keys |-> <<>>, vals |-> <<>>]
NoOptions == [given |-> FALSE, opts |-> <<>>]

LocIdle == loc = <<>> /\ path = <<>>
ExplainIdle == error = NoError /\ details = <<>>
DictIdle == detail = NoDetail /\ dict = <<>>
NoResult == [raised |-> FALSE, value |-> <<>>]
QueryIdle ==
    errors = <<>> /\ crit = NoCrit /\ result = NoResult
    /\ groups = EmptyDict /\ counts = EmptyDict
RenderIdle == options = NoOptions /\ report = <<>> /\ console = <<>>
TruncIdle == obj = PyNone /\ limit = 0 /\ truncated = <<>>
BlockIdle == formatted = <<>>
NoAttempt == [target |-> "", name |-> "", raised |-> FALSE]
FramesIdle == frames = <<>>
ObjIdle == heap = <<>> /\ snaps = <<>> /\ attempt = NoAttempt

----------------------------------------------------------------------------
(* _format_loc called on every location tuple *)

InitLoc ==
    /\ returned = {}
    /\ loc \in Locs
    /\ path = <<>>
    /\ ExplainIdle /\ DictIdle /\ QueryIdle /\ RenderIdle /\ TruncIdle /\ BlockIdle /\ ObjIdle /\ FramesIdle

FormatLoc ==
    /\ "_format_loc" \notin returned
    /\ path' = _format_loc(loc)
    /\ returned' = returned \cup {"_format_loc"}
    /\ UNCHANGED <<loc, error, details, detail, dict, errors, crit, result,
                   groups, counts, options, report, console>>
    /\ UNCHANGED <<truncVars, formatted, objVars, frames>>

NextLoc == FormatLoc

SpecLoc == InitLoc /\ [][NextLoc]_vars

----------------------------------------------------------------------------
(* explain called on every ValidationError *)

OtherType == <<"t">>
Types == {MISSING, OtherType}
\* the message pydantic gives an error of type t
MsgOf(t) == IF t = MISSING THEN <<"m">> ELSE <<"n">>
Url == <<"u">>
Ctx == [gt |-> PyInt(0)]
Title == <<"U", "s", "e", "r">>

\* the records of error.errors(): loc, msg and type, and any of input, ctx, url
RawLocs == {<<>>, <<PyStr(NameA), PyInt(0), PyStr(NameB)>>}
RawBase == {[loc |-> l, msg |-> MsgOf(t), type |-> t] : l \in RawLocs, t \in Types}
RawInputs == {PyNone, PyInt(0)}
WithInput(S) == S \cup {DictSet(r, "input", v) : r \in S, v \in RawInputs}
WithCtx(S) == S \cup {DictSet(r, "ctx", Ctx) : r \in S}
WithUrl(S) == S \cup {DictSet(r, "url", Url) : r \in S}
RawRecords == WithUrl(WithCtx(WithInput(RawBase)))

ValidationErrors ==
    {[title |-> Title, errors |-> es] : es \in TuplesUpTo(RawRecords, MaxErrors)}

InitExplain ==
    /\ returned = {}
    /\ error \in ValidationErrors
    /\ details = <<>>
    /\ LocIdle /\ DictIdle /\ QueryIdle /\ RenderIdle /\ TruncIdle /\ BlockIdle /\ ObjIdle /\ FramesIdle

Explain ==
    /\ "explain" \notin returned
    /\ details' = explain(error)
    /\ returned' = returned \cup {"explain"}
    /\ UNCHANGED <<loc, path, error, detail, dict, errors, crit, result,
                   groups, counts, options, report, console>>
    /\ UNCHANGED <<truncVars, formatted, objVars, frames>>

NextExplain == Explain

SpecExplain == InitExplain /\ [][NextExplain]_vars

----------------------------------------------------------------------------
(* group_errors and count_errors called on what explain returned *)

\* locations that differ in their first segment: none, a field name, an index,
\* the wildcard, and names that are empty or hold "<root>", "." or "["
KeyLocs ==
    {<<>>,
     <<PyStr(NameA)>>, <<PyStr(NameA), PyInt(0), PyStr(NameB)>>,
     <<PyStr(NameA), PyStr(NameB)>>, <<PyStr(NameB), PyStr(ALL)>>,
     <<PyInt(0)>>, <<PyInt(12), PyStr(NameA)>>,
     <<PyStr(ALL)>>, <<PyStr(ALL), PyStr(NameB)>>,
     <<PyStr(ROOT)>>, <<PyStr(<<>>), PyStr(NameB)>>,
     <<PyStr(<<"a", ".", "b">>)>>, <<PyStr(<<"[", "1", "]">>)>>}
KeyRecords == {[loc |-> l, msg |-> MsgOf(OtherType), type |-> OtherType] : l \in KeyLocs}
KeyErrors ==
    {[title |-> Title, errors |-> es] : es \in TuplesUpTo(KeyRecords, MaxErrors)}

InitKeys ==
    /\ returned = {}
    /\ error \in KeyErrors
    /\ details = <<>>
    /\ LocIdle /\ DictIdle /\ QueryIdle /\ RenderIdle /\ TruncIdle /\ BlockIdle /\ ObjIdle /\ FramesIdle

\* group_errors(explain(error)), once explain has returned
GroupExplained ==
    /\ "explain" \in returned
    /\ "group_errors" \notin returned
    /\ errors' = details
    /\ groups' = group_errors(details)
    /\ returned' = returned \cup {"group_errors"}
    /\ UNCHANGED <<loc, path, error, details, detail, dict, crit, result,
                   counts, options, report, console>>
    /\ UNCHANGED <<truncVars, formatted, objVars, frames>>

\* count_errors(explain(error)), once explain has returned
CountExplained ==
    /\ "explain" \in returned
    /\ "count_errors" \notin returned
    /\ errors' = details
    /\ counts' = count_errors(details)
    /\ returned' = returned \cup {"count_errors"}
    /\ UNCHANGED <<loc, path, error, details, detail, dict, crit, result,
                   groups, options, report, console>>
    /\ UNCHANGED <<truncVars, formatted, objVars, frames>>

NextKeys == Explain \/ GroupExplained \/ CountExplained

SpecKeys == InitKeys /\ [][NextKeys]_vars

----------------------------------------------------------------------------
(* to_dict called on every ErrorDetail *)

InputValues ==
    {PyNone, PyInt(0), PyInt(5), PyStr(<<>>), PyStr(<<"x">>), PyBool(FALSE),
     PyList, PyDict}
Paths == {_format_loc(l) : l \in RawLocs}
Details ==
    {ErrorDetail(p, MsgOf(t), t, v, c, u) :
        p \in Paths, t \in Types, v \in InputValues, c \in {<<>>, Ctx}, u \in {<<>>, Url}}

InitDict ==
    /\ returned = {}
    /\ detail \in Details
    /\ dict = <<>>
    /\ LocIdle /\ ExplainIdle /\ QueryIdle /\ RenderIdle /\ TruncIdle /\ BlockIdle /\ ObjIdle /\ FramesIdle

ToDict ==
    /\ "to_dict" \notin returned
    /\ dict' = to_dict(detail)
    /\ returned' = returned \cup {"to_dict"}
    /\ UNCHANGED <<loc, path, error, details, detail, errors, crit, result,
                   groups, counts, options, report, console>>
    /\ UNCHANGED <<truncVars, formatted, objVars, frames>>

NextDict == ToDict

SpecDict == InitDict /\ [][NextDict]_vars

----------------------------------------------------------------------------
(* an ErrorDetail and a FormatOptions in the hands of a caller, who assigns  *)
(* to their attributes, calls to_dict and writes to the dicts it returned    *)

MaxCalls == 2

ObjDetails ==
    {d \in Details : d.path = ROOT /\ d.error_type = OtherType
                       /\ d.input_value \in {PyNone, PyInt(0)}}
ObjOptions ==
    {[given |-> TRUE, opts |-> o] :
        o \in {DefaultOptions, FormatOptions(FALSE, TRUE, TRUE, DefaultInputMaxLength)}}
DetailFields == {"path", "message", "error_type", "input_value", "context", "url"}
OptionsFields == {"show_input", "show_url", "show_error_type", "input_max_length"}
\* a value for the attribute name of o that is not the one it has
Assigned(o, name) ==
    IF name \in {"path", "message", "error_type", "url"} THEN o[name] \o <<"x">>
    ELSE IF name = "input_value" THEN PyStr(<<"x">>)
    ELSE IF name = "context" THEN Ref(0)
    ELSE IF name = "input_max_length" THEN 0
    ELSE ~o[name]

InitObjects ==
    /\ returned = {}
    /\ \E d \in ObjDetails :
         /\ detail = [d EXCEPT !.context = Ref(1)]
         /\ heap = <<d.context>>
    /\ options \in ObjOptions
    /\ snaps = <<>> /\ attempt = NoAttempt
    /\ dict = <<>> /\ report = <<>> /\ console = <<>>
    /\ LocIdle /\ ExplainIdle /\ QueryIdle /\ TruncIdle /\ BlockIdle /\ FramesIdle

\* detail.name = v
SetDetailAttr ==
    /\ \E name \in DetailFields :
         LET r == setattr(detail, name, Assigned(detail, name))
         IN /\ detail' = r.obj
            /\ attempt' = [target |-> "ErrorDetail", name |-> name, raised |-> r.raised]
    /\ UNCHANGED <<returned, loc, path, error, details, dict, errors, crit, result,
                   groups, counts, options, report, console, heap, snaps>>
    /\ UNCHANGED <<truncVars, formatted, frames>>

\* options.name = v
SetOptionsAttr ==
    /\ \E name \in OptionsFields :
         LET r == setattr(options.opts, name, Assigned(options.opts, name))
         IN /\ options' = [options EXCEPT !.opts = r.obj]
            /\ attempt' = [target |-> "FormatOptions", name |-> name, raised |-> r.raised]
    /\ UNCHANGED <<returned, loc, path, error, details, detail, dict, errors, crit,
                   result, groups, counts, report, console, heap, snaps>>
    /\ UNCHANGED <<truncVars, formatted, frames>>

\* m = detail.to_dict(): a new dict
ToDictCall ==
    /\ Len(snaps) < MaxCalls
    /\ LET m == ToDictRef(detail, heap)
       IN /\ heap' = Append(heap, m)
          /\ snaps' = Append(snaps, DeepDict(m, heap))
    /\ returned' = returned \cup {"to_dict"}
    /\ UNCHANGED <<loc, path, error, details, detail, dict, errors, crit, result,
                   groups, counts, options, report, console, attempt>>
    /\ UNCHANGED <<truncVars, formatted, frames>>

\* m["path"] = "x" on a dict m that to_dict returned
SetItem ==
    /\ \E a \in 2..Len(heap) :
         heap' = [heap EXCEPT ![a] = DictSet(@, "path", <<"x">>)]
    /\ UNCHANGED <<returned, loc, path, error, details, detail, dict, errors, crit,
                   result, groups, counts, options, report, console, snaps, attempt>>
    /\ UNCHANGED <<truncVars, formatted, frames>>

\* m["context"]["gt"] = v on a dict m that to_dict returned
SetContextItem ==
    /\ \E a \in 2..Len(heap), v \in {PyInt(0), PyInt(1)} :
         /\ "context" \in DOMAIN heap[a]
         /\ heap' = [heap EXCEPT ![heap[a]["context"].ref] = DictSet(@, "gt", v)]
    /\ UNCHANGED <<returned, loc, path, error, details, detail, dict, errors, crit,
                   result, groups, counts, options, report, console, snaps, attempt>>
    /\ UNCHANGED <<truncVars, formatted, frames>>

NextObjects == SetDetailAttr \/ SetOptionsAttr \/ ToDictCall \/ SetItem \/ SetContextItem

SpecObjects == InitObjects /\ [][NextObjects]_vars

----------------------------------------------------------------------------
(* the query layer called on every tuple of ErrorDetail *)

QueryPaths ==
    {<<"a">>, <<"a", ".", "b">>, <<"a", "[", "1", "]">>, <<"b">>,
     <<"[", "0", "]", ".", "a">>}
QueryDetails ==
    {ErrorDetail(p, MsgOf(t), t, PyNone, <<>>, <<>>) : p \in QueryPaths, t \in Types}
QueryTuples == TuplesUpTo(QueryDetails, MaxSeq)

Given(x) == [given |-> TRUE, s |-> x]
NotGiven == [given |-> FALSE, s |-> <<>>]

\* the error_type arguments: None, the two types of the records, a type of no record
TypeArgs == {NotGiven, Given(MISSING), Given(OtherType), Given(<<"x">>)}

\* the path_pattern arguments: None, "^a", "\[1\]", "b$", "a.b", "[ab]\.", and "[" and "a\" that do not compile
PatternArgs ==
    {NotGiven,
     Given(<<"^", "a">>),
     Given(<<"\\", "[", "1", "\\", "]">>),
     Given(<<"b", "$">>),
     Given(<<"a", ".", "b">>),
     Given(<<"[", "a", "b", "]", "\\", ".">>),
     Given(<<"[">>),
     Given(<<"a", "\\">>)}

InitQuery ==
    /\ returned = {}
    /\ errors \in QueryTuples
    /\ crit = NoCrit /\ result = NoResult
    /\ groups = EmptyDict /\ counts = EmptyDict
    /\ LocIdle /\ ExplainIdle /\ DictIdle /\ RenderIdle /\ TruncIdle /\ BlockIdle /\ ObjIdle /\ FramesIdle

FilterErrors ==
    /\ returned = {}
    /\ \E t \in TypeArgs, p \in PatternArgs :
         /\ crit' = [error_type |-> t, path_pattern |-> p]
         /\ result' = filter_errors(errors, t, p)
    /\ returned' = {"filter_errors"}
    /\ UNCHANGED <<loc, path, error, details, detail, dict, errors,
                   groups, counts, options, report, console>>
    /\ UNCHANGED <<truncVars, formatted, objVars, frames>>

GroupErrors ==
    /\ returned \subseteq {"count_errors"}
    /\ groups' = group_errors(errors)
    /\ returned' = returned \cup {"group_errors"}
    /\ UNCHANGED <<loc, path, error, details, detail, dict, errors, crit, result,
                   counts, options, report, console>>
    /\ UNCHANGED <<truncVars, formatted, objVars, frames>>

CountErrors ==
    /\ returned \subseteq {"group_errors"}
    /\ counts' = count_errors(errors)
    /\ returned' = returned \cup {"count_errors"}
    /\ UNCHANGED <<loc, path, error, details, detail, dict, errors, crit, result,
                   groups, options, report, console>>
    /\ UNCHANGED <<truncVars, formatted, objVars, frames>>

NextQuery == FilterErrors \/ GroupErrors \/ CountErrors

SpecQuery == InitQuery /\ [][NextQuery]_vars

----------------------------------------------------------------------------
(* the two renderers called on every ValidationError and every options *)

LongInput == PyStr(<<"a", "b", "c", "d", "e", "f">>)
ShortMaxLength == 5

\* the location pydantic reports an error of type t at
LocOf(t) == IF t = MISSING THEN <<PyStr(NameA)>> ELSE <<PyStr(NameA), PyInt(0), PyStr(NameB)>>

RenderBase == {[loc |-> LocOf(t), msg |-> MsgOf(t), type |-> t] : t \in Types}
RenderInputs == RenderBase \cup {DictSet(r, "input", v) : r \in RenderBase, v \in {PyNone, LongInput}}
RenderRecords == WithUrl(RenderInputs)
RenderErrors ==
    {[title |-> Title, errors |-> es] : es \in TuplesUpTo(RenderRecords, MaxErrors)}

OptionsArgs ==
    {NoOptions} \cup
    {[given |-> TRUE, opts |-> FormatOptions(i, u, t, n)] :
        i \in BOOLEAN, u \in BOOLEAN, t \in BOOLEAN,
        n \in {DefaultInputMaxLength, ShortMaxLength}}

InitRender ==
    /\ returned = {}
    /\ error \in RenderErrors
    /\ options \in OptionsArgs
    /\ details = <<>> /\ report = <<>> /\ console = <<>>
    /\ LocIdle /\ DictIdle /\ QueryIdle /\ TruncIdle /\ BlockIdle /\ ObjIdle /\ FramesIdle

FormatErrors ==
    /\ "format_errors" \notin returned
    /\ report' = format_errors(error, options)
    /\ returned' = returned \cup {"format_errors"}
    /\ UNCHANGED <<loc, path, error, details, detail, dict, errors, crit, result,
                   groups, counts, options, console>>
    /\ UNCHANGED <<truncVars, formatted, objVars, frames>>

FormatErrorsRich ==
    /\ "format_errors_rich" \notin returned
    /\ console' = format_errors_rich(error, options, console)
    /\ returned' = returned \cup {"format_errors_rich"}
    /\ UNCHANGED <<loc, path, error, details, detail, dict, errors, crit, result,
                   groups, counts, options, report>>
    /\ UNCHANGED <<truncVars, formatted, objVars, frames>>

NextRender == FormatErrors \/ FormatErrorsRich

SpecRender == InitRender /\ [][NextRender]_vars

----------------------------------------------------------------------------
(* the renderers and format_error_detail called without options and with a   *)
(* FormatOptions built from the documented defaults                           *)

ExplicitDefaults == [given |-> TRUE, opts |-> FormatOptions(TRUE, FALSE, FALSE, 80)]

InitDefaults ==
    /\ returned = {}
    /\ error \in RenderErrors
    /\ options \in {NoOptions, ExplicitDefaults}
    /\ details = <<>> /\ report = <<>> /\ console = <<>>
    /\ formatted = <<>>
    /\ LocIdle /\ DictIdle /\ QueryIdle /\ TruncIdle /\ ObjIdle /\ FramesIdle

\* format_error_detail called on one of the records of explain(error)
FormatErrorDetail ==
    /\ "format_error_detail" \notin returned
    /\ \E i \in 1..Len(error.errors) :
         /\ detail' = explain(error)[i]
         /\ formatted' = format_error_detail(detail', options)
    /\ returned' = returned \cup {"format_error_detail"}
    /\ UNCHANGED <<loc, path, error, details, dict, errors, crit, result,
                   groups, counts, options, report, console>>
    /\ UNCHANGED <<truncVars, objVars, frames>>

NextDefaults == FormatErrors \/ FormatErrorsRich \/ FormatErrorDetail

SpecDefaults == InitDefaults /\ [][NextDefaults]_vars

----------------------------------------------------------------------------
(* calls running at the same time, one per thread.  A frame holds the locals  *)
(* of a call: fn the function, arg and opt its arguments, ds the details of   *)
(* the renderers, i the position of its loop, acc the collection it builds,   *)
(* done and result its return.  A step of a thread is one pass of a loop.     *)

Threads == {1, 2}

Frame(fn, arg, opt, acc) ==
    [fn |-> fn, arg |-> arg, opt |-> opt, ds |-> <<>>, i |-> 0, acc |-> acc,
     done |-> FALSE, result |-> <<>>]

Return(f, value) == [f EXCEPT !.done = TRUE, !.result = value]

\* one step of explain: the next record of error.errors()
ExplainStep(f) ==
    IF f.i = 0 THEN [f EXCEPT !.i = 1]
    ELSE IF f.i > Len(f.arg.errors) THEN Return(f, f.acc)
    ELSE [f EXCEPT !.acc = Append(@, ExplainRecord(f.arg.errors[f.i])), !.i = @ + 1]

\* one step of filter_errors: the type pass, then the compilation and the path pass
FilterStep(f) ==
    IF f.i = 0
    THEN [f EXCEPT !.acc = IF f.opt.error_type.given
                           THEN FilterType(f.arg, f.opt.error_type.s) ELSE f.arg,
                   !.i = 1]
    ELSE IF ~f.opt.path_pattern.given THEN Return(f, [raised |-> FALSE, value |-> f.acc])
    ELSE IF ~re_compile(f.opt.path_pattern.s).ok
    THEN Return(f, [raised |-> TRUE, value |-> <<>>])
    ELSE Return(f, [raised |-> FALSE,
                    value |-> FilterPath(f.acc, re_compile(f.opt.path_pattern.s).atoms)])

\* one step of group_errors: the next record
GroupCallStep(f) ==
    IF f.i = 0 THEN [f EXCEPT !.i = 1]
    ELSE IF f.i > Len(f.arg) THEN Return(f, f.acc)
    ELSE [f EXCEPT !.acc = GroupStep(@, f.arg[f.i]), !.i = @ + 1]

\* one step of count_errors: the next record
CountCallStep(f) ==
    IF f.i = 0 THEN [f EXCEPT !.i = 1]
    ELSE IF f.i > Len(f.arg) THEN Return(f, f.acc)
    ELSE [f EXCEPT !.acc = CountStep(@, f.arg[f.i]), !.i = @ + 1]

\* one step of format_errors: explain and the header, then the next record, then the join
FormatStep(f) ==
    IF f.i = 0
    THEN LET ds == explain(f.arg)
         IN [f EXCEPT !.ds = ds,
                      !.acc = << ValidationFailed \o HeaderTail(f.arg.title, Len(ds)) >>,
                      !.i = 1]
    ELSE IF f.i > Len(f.ds) THEN Return(f, JoinSep(NL, f.acc))
    ELSE [f EXCEPT !.acc = @ \o << <<>>, format_error_detail(f.ds[f.i],
                                          [given |-> TRUE, opts |-> OptionsOrDefault(f.opt)]) >>,
                   !.i = @ + 1]

StepFrame(f) ==
    IF f.fn = "explain" THEN ExplainStep(f)
    ELSE IF f.fn = "filter_errors" THEN FilterStep(f)
    ELSE IF f.fn = "group_errors" THEN GroupCallStep(f)
    ELSE IF f.fn = "count_errors" THEN CountCallStep(f)
    ELSE FormatStep(f)

\* the frames after a step of thread t whose collection is a module-level
\* object: the other thread's call of the same function builds the same one
ThreadStep_SharedAcc(fs, t) ==
    [u \in DOMAIN fs |->
        IF u = t THEN StepFrame(fs[t])
        ELSE IF fs[u].fn = fs[t].fn /\ ~fs[u].done
        THEN [fs[u] EXCEPT !.acc = StepFrame(fs[t]).acc]
        ELSE fs[u]]

\* the frames after a step of thread t: every name a call writes is a local
ThreadStep(fs, t) == [fs EXCEPT ![t] = StepFrame(fs[t])]

TaskRecords ==
    {[loc |-> <<PyStr(NameA)>>, msg |-> MsgOf(MISSING), type |-> MISSING],
     [loc |-> <<PyStr(NameB), PyInt(0)>>, msg |-> MsgOf(OtherType), type |-> OtherType,
      input |-> LongInput, url |-> Url]}
TaskErrors ==
    {[title |-> Title, errors |-> es] : es \in TuplesUpTo(TaskRecords, MaxErrors)}
TaskCrits ==
    {[error_type |-> Given(MISSING), path_pattern |-> Given(<<"^", "a">>)],
     [error_type |-> NotGiven, path_pattern |-> Given(<<"[">>)]}

StartFrames ==
    {Frame("explain", e, <<>>, <<>>) : e \in TaskErrors}
    \cup {Frame("filter_errors", explain(e), c, <<>>) : e \in TaskErrors, c \in TaskCrits}
    \cup {Frame("group_errors", explain(e), <<>>, EmptyDict) : e \in TaskErrors}
    \cup {Frame("count_errors", explain(e), <<>>, EmptyDict) : e \in TaskErrors}
    \cup {Frame("format_errors", e, NoOptions, <<>>) : e \in TaskErrors}

InitCalls ==
    /\ returned = {}
    /\ frames \in [Threads -> StartFrames]
    /\ LocIdle /\ ExplainIdle /\ DictIdle /\ QueryIdle /\ RenderIdle
    /\ TruncIdle /\ BlockIdle /\ ObjIdle

\* thread t runs the next step of its call
CallStep(t) ==
    /\ ~frames[t].done
    /\ frames' = ThreadStep(frames, t)
    /\ returned' = IF frames'[t].done THEN returned \cup {frames[t].fn} ELSE returned
    /\ UNCHANGED <<loc, path, error, details, detail, dict, errors, crit, result,
                   groups, counts, options, report, console>>
    /\ UNCHANGED <<truncVars, formatted, objVars>>

NextCalls == \E t \in Threads : CallStep(t)

SpecCalls == InitCalls /\ [][NextCalls]_vars

----------------------------------------------------------------------------
(* calls of format_errors_rich running at the same time on one console.  In  *)
(* the frame of a call i is the record and acc the print of its block that   *)
(* comes next; a step of a thread is one con.print.                          *)

\* one step of format_errors_rich on the console con: [frame, console]
RichStep(f, con) ==
    LET opts == OptionsOrDefault(f.opt)
    IN IF f.i = 0
       THEN LET ds == explain(f.arg)
                header == <<Span(ValidationFailed, "bold red"),
                            Span(HeaderTail(f.arg.title, Len(ds)), "")>>
            IN [frame |-> IF ds = <<>> THEN Return([f EXCEPT !.ds = ds], PyNone)
                          ELSE [f EXCEPT !.ds = ds, !.i = 1, !.acc = 1],
                console |-> Append(con, header)]
       ELSE LET prints == RichDetail(f.ds[f.i], opts)
                next == IF f.acc < Len(prints) THEN [f EXCEPT !.acc = @ + 1]
                        ELSE IF f.i < Len(f.ds) THEN [f EXCEPT !.i = @ + 1, !.acc = 1]
                        ELSE Return(f, PyNone)
            IN [frame |-> next, console |-> Append(con, prints[f.acc])]

SinkOptions ==
    {NoOptions,
     [given |-> TRUE, opts |-> FormatOptions(TRUE, TRUE, TRUE, DefaultInputMaxLength)]}

\* the ValidationErrors printed: no record, or one of the records of TaskRecords
SinkErrors ==
    {[title |-> Title, errors |-> <<>>]}
    \cup {[title |-> Title, errors |-> <<r>>] : r \in TaskRecords}

RichFrames ==
    {Frame("format_errors_rich", e, o, 0) : e \in SinkErrors, o \in SinkOptions}

InitSink ==
    /\ returned = {}
    /\ frames \in [Threads -> RichFrames]
    /\ console = <<>>
    /\ options = NoOptions /\ report = <<>>
    /\ LocIdle /\ ExplainIdle /\ DictIdle /\ QueryIdle
    /\ TruncIdle /\ BlockIdle /\ ObjIdle

\* thread t makes the next print of its call
PrintStep(t) ==
    /\ ~frames[t].done
    /\ LET r == RichStep(frames[t], console)
       IN /\ frames' = [frames EXCEPT ![t] = r.frame]
          /\ console' = r.console
    /\ returned' = IF frames'[t].done THEN returned \cup {frames[t].fn} ELSE returned
    /\ UNCHANGED <<loc, path, error, details, detail, dict, errors, crit, result,
                   groups, counts, options, report>>
    /\ UNCHANGED <<truncVars, formatted, objVars>>

NextSink == \E t \in Threads : PrintStep(t)

SpecSink == InitSink /\ [][NextSink]_vars

----------------------------------------------------------------------------
(* _truncate_repr called on every object and every max_length *)

MaxLength == 9

InitTruncate ==
    /\ returned = {}
    /\ obj \in InputValues \cup {LongInput}
    /\ limit \in -1..MaxLength
    /\ truncated = <<>>
    /\ LocIdle /\ ExplainIdle /\ DictIdle /\ QueryIdle /\ RenderIdle /\ BlockIdle /\ ObjIdle /\ FramesIdle

TruncateRepr ==
    /\ "_truncate_repr" \notin returned
    /\ truncated' = _truncate_repr(obj, limit)
    /\ returned' = returned \cup {"_truncate_repr"}
    /\ UNCHANGED <<loc, path, error, details, detail, dict, errors, crit, result,
                   groups, counts, options, report, console, obj, limit, formatted>>
    /\ UNCHANGED <<objVars, frames>>

NextTruncate == TruncateRepr

SpecTruncate == InitTruncate /\ [][NextTruncate]_vars

----------------------------------------------------------------------------
(* C1, C2: the path formatter *)

IsBracket(segment) == IsInstanceInt(segment) \/ segment.s = ALL

\* the token the documentation gives segment i of l
Token(l, i) ==
    IF IsInstanceInt(l[i]) THEN <<"[">> \o IntStr(l[i].n) \o <<"]">>
    ELSE IF l[i].s = ALL THEN <<"[", "*", "]">>
    ELSE IF i = 1 THEN l[i].s
    ELSE <<".">> \o l[i].s

\* the number of characters the tokens before segment i take
RECURSIVE Offset(_, _)
Offset(l, i) == IF i = 1 THEN 0 ELSE Offset(l, i - 1) + Len(Token(l, i - 1))

\* a name that puts no "." of its own at its end
PlainEnd(segment) ==
    IsBracket(segment) \/ (segment.s # <<>> /\ segment.s[Len(segment.s)] # ".")

\* C1: _format_loc returns "<root>" for the empty tuple and otherwise the
\* concatenation, left to right, of one token per segment: "[n]" for an int,
\* "[*]" for the wildcard, the bare name for a first name and "." then the
\* name for a later one; a bracketed token starts with "[" right where the
\* previous token ends, so no "." is put before it, also when it leads.
C1_FormatLocTokens ==
    "_format_loc" \in returned =>
        /\ loc = <<>> => path = ROOT
        /\ loc # <<>> =>
            /\ path = Join([i \in 1..Len(loc) |-> Token(loc, i)])
            /\ \A i \in 1..Len(loc) :
                 IsBracket(loc[i]) =>
                    /\ path[Offset(loc, i) + 1] = "["
                    /\ (i > 1 /\ PlainEnd(loc[i - 1])) => path[Offset(loc, i)] # "."

\* a mixed tuple with a leading index and a name after a bracket was formatted
C1_Witness ==
    /\ "_format_loc" \in returned
    /\ loc = <<PyInt(12), PyStr(NameA), PyStr(ALL)>>
    /\ path = <<"[", "1", "2", "]", ".", "a", "[", "*", "]">>

\* C2: two different location tuples never render to the same path
C2_PathUnambiguous ==
    "_format_loc" \in returned => \A other \in Locs : other # loc => _format_loc(other) # path

----------------------------------------------------------------------------
(* C3, C4: the error normalizer *)

\* C3: explain returns one record per raw record, in the order of the raw
\* records: the i-th result has the type, the msg and the formatted loc of the
\* i-th raw record, also when raw records are equal to each other.
C3_ExplainOneToOne ==
    "explain" \in returned =>
        /\ Len(details) = Len(error.errors)
        /\ \A i \in 1..Len(details) :
              /\ details[i].error_type = error.errors[i]["type"]
              /\ details[i].message = error.errors[i]["msg"]
              /\ details[i].path = _format_loc(error.errors[i]["loc"])

\* two raw records that differ in type, msg and loc were normalized
C3_Witness ==
    /\ "explain" \in returned
    /\ Len(error.errors) = 2
    /\ error.errors[1]["type"] # error.errors[2]["type"]
    /\ error.errors[1]["msg"] # error.errors[2]["msg"]
    /\ error.errors[1]["loc"] # error.errors[2]["loc"]
    /\ details[1].error_type = MISSING
    /\ details[2].error_type = OtherType
    /\ details[2].path = <<"a", "[", "0", "]", ".", "b">>

\* a and b differ only in that a carries no input and b carries the input None
AbsentVersusNone(a, b) ==
    /\ "input" \notin DOMAIN a
    /\ "input" \in DOMAIN b
    /\ b["input"] = PyNone
    /\ DictSet(a, "input", PyNone) = b

\* C4: of two raw records that differ only in that one carries no input and
\* the other carries the input None, explain makes two unequal records, and
\* their to_dict conversions differ.
C4_AbsentInputKept ==
    "explain" \in returned =>
        \A i, j \in 1..Len(details) :
            AbsentVersusNone(error.errors[i], error.errors[j]) =>
                /\ ~DetailEq(details[i], details[j])
                /\ to_dict(details[i]) # to_dict(details[j])

----------------------------------------------------------------------------
(* C5: the dict conversion *)

\* C5: to_dict returns a dict with path, message and error_type always, with
\* context iff context is not empty, with url iff url is not empty and with
\* input_value iff the input is not the absent marker None, each key with the
\* value of the record; an input that is falsy but present is included.
C5_ToDictKeys ==
    "to_dict" \in returned =>
        /\ {"path", "message", "error_type"} \subseteq DOMAIN dict
        /\ DOMAIN dict \subseteq
              {"path", "message", "error_type", "input_value", "context", "url"}
        /\ dict["path"] = detail.path
        /\ dict["message"] = detail.message
        /\ dict["error_type"] = detail.error_type
        /\ "context" \in DOMAIN dict <=> detail.context # <<>>
        /\ "url" \in DOMAIN dict <=> detail.url # <<>>
        /\ "input_value" \in DOMAIN dict <=> detail.input_value # PyNone
        /\ "context" \in DOMAIN dict => dict["context"] = detail.context
        /\ "url" \in DOMAIN dict => dict["url"] = detail.url
        /\ "input_value" \in DOMAIN dict => dict["input_value"] = detail.input_value
        /\ detail.input_value \in {PyInt(0), PyStr(<<>>), PyBool(FALSE), PyList, PyDict}
              => "input_value" \in DOMAIN dict

\* a record with the input 0, no context and no url was converted
C5_Witness ==
    /\ "to_dict" \in returned
    /\ detail.input_value = PyInt(0)
    /\ detail.context = <<>>
    /\ detail.url = <<>>
    /\ DOMAIN dict = {"path", "message", "error_type", "input_value"}
    /\ dict["input_value"] = PyInt(0)

----------------------------------------------------------------------------
(* C6 - C9: the query layer *)

\* the record e satisfies every criterion that was supplied
Satisfies(e) ==
    /\ crit.error_type.given => e.error_type = crit.error_type.s
    /\ crit.path_pattern.given => re_search(re_compile(crit.path_pattern.s).atoms, e.path)

\* C6: filter_errors returns exactly the subsequence, order and duplicates
\* kept, of the records that satisfy every supplied criterion: error_type
\* equal to the given string, path matched by the given pattern; a criterion
\* that is not supplied constrains nothing.
C6_FilterSubsequence ==
    ("filter_errors" \in returned /\ ~result.raised) =>
        result.value = SelectSeq(errors, Satisfies)

\* both criteria were supplied, and of three records the first and the last,
\* equal to each other, were kept and the middle one was dropped
C6_Witness ==
    /\ "filter_errors" \in returned
    /\ crit.error_type.given /\ crit.path_pattern.given
    /\ Len(errors) = 3
    /\ errors[1] = errors[3]
    /\ errors[2].error_type = errors[1].error_type
    /\ result.value = <<errors[1], errors[3]>>

\* the prefix of a path: the portion before its first "." or "[", or all of it
PrefixOf(p) ==
    LET cut == {i \in 1..Len(p) : p[i] \in {".", "["}}
    IN IF cut = {} THEN p
       ELSE SubSeq(p, 1, (CHOOSE i \in cut : \A j \in cut : i <= j) - 1)

\* the set of the elements of a sequence
Range(seq) == {seq[i] : i \in 1..Len(seq)}

\* the number of positions of seq that hold x
Occurrences(seq, x) == Cardinality({i \in 1..Len(seq) : seq[i] = x})

\* C7: count_errors and group_errors have the same key set, and count_errors
\* gives every key the length of its group.
C7_GroupCountAgree ==
    {"group_errors", "count_errors"} \subseteq returned =>
        /\ DOMAIN counts.vals = DOMAIN groups.vals
        /\ Range(counts.keys) = Range(groups.keys)
        /\ \A k \in DOMAIN groups.vals : counts.vals[k] = Len(groups.vals[k])

\* both were called on three records, two of them under the same prefix
C7_Witness ==
    /\ {"group_errors", "count_errors"} \subseteq returned
    /\ Len(errors) = 3
    /\ Cardinality(DOMAIN groups.vals) = 2
    /\ \E k \in DOMAIN counts.vals : counts.vals[k] = 2 /\ Len(groups.vals[k]) = 2

\* C8: group_errors maps each prefix to exactly the records whose path has
\* that prefix: the keys are the prefixes of the input paths, and every input
\* record is in the group of its own prefix, as often as in the input, and in
\* no other group.
C8_GroupByPrefix ==
    "group_errors" \in returned =>
        /\ DOMAIN groups.vals = {PrefixOf(e.path) : e \in Range(errors)}
        /\ Range(groups.keys) = DOMAIN groups.vals
        /\ \A k \in DOMAIN groups.vals :
              /\ \A e \in Range(groups.vals[k]) : PrefixOf(e.path) = k
              /\ \A e \in Range(errors) :
                    Occurrences(groups.vals[k], e) =
                        IF PrefixOf(e.path) = k THEN Occurrences(errors, e) ELSE 0

\* "a.b" and "a[1]" were grouped under "a", and "[0].a" under the empty prefix
C8_Witness ==
    /\ "group_errors" \in returned
    /\ {e.path : e \in Range(errors)} =
          {<<"a", ".", "b">>, <<"a", "[", "1", "]">>, <<"[", "0", "]", ".", "a">>}
    /\ DOMAIN groups.vals = {<<"a">>, <<>>}
    /\ Len(groups.vals[<<"a">>]) = 2

\* the position of the first record of es whose prefix is k
FirstOccurrence(es, k) ==
    CHOOSE i \in 1..Len(es) :
        /\ PrefixOf(es[i].path) = k
        /\ \A j \in 1..(i - 1) : PrefixOf(es[j].path) # k

\* C9: the keys of the dict of group_errors are in the order in which each
\* prefix first occurs in the input, each once, and the records of a group
\* are in their input order.
C9_GroupOrder ==
    "group_errors" \in returned =>
        /\ \A a, b \in 1..Len(groups.keys) :
              a < b => FirstOccurrence(errors, groups.keys[a])
                          < FirstOccurrence(errors, groups.keys[b])
        /\ \A k \in DOMAIN groups.vals :
              LET Under(e) == PrefixOf(e.path) = k
              IN groups.vals[k] = SelectSeq(errors, Under)

\* prefix "b" came first, then "a", then "b" again with another record
C9_Witness ==
    /\ "group_errors" \in returned
    /\ Len(errors) = 3
    /\ errors[1].path = <<"b">> /\ errors[1].error_type = OtherType
    /\ errors[2].path = <<"a", ".", "b">>
    /\ errors[3].path = <<"b">> /\ errors[3].error_type = MISSING
    /\ groups.keys = << <<"b">>, <<"a">> >>
    /\ groups.vals[<<"b">>] = <<errors[1], errors[3]>>

----------------------------------------------------------------------------
(* C10: the two renderers *)

\* C10: what format_errors_rich writes, styles removed, is the report of
\* format_errors for the same failure and the same options, line by line and
\* in the same order, each line ended by the newline of its print.
C10_RichMatchesText ==
    {"format_errors", "format_errors_rich"} \subseteq returned =>
        ConsoleOutput(console) = report \o NL

\* both renderers ran on two records with every optional line shown, one
\* input truncated
C10_Witness ==
    /\ {"format_errors", "format_errors_rich"} \subseteq returned
    /\ Len(error.errors) = 2
    /\ options.given
    /\ options.opts.show_input /\ options.opts.show_url /\ options.opts.show_error_type
    /\ options.opts.input_max_length = ShortMaxLength
    /\ error.errors[1]["type"] = OtherType
    /\ "input" \in DOMAIN error.errors[1] /\ error.errors[1]["input"] = LongInput
    /\ "url" \in DOMAIN error.errors[1]
    /\ error.errors[2]["type"] = MISSING
    /\ Len(console) = 10

----------------------------------------------------------------------------
(* C11: truncation *)

\* the first k characters of s, none when k is not positive
FirstChars(s, k) == [i \in 1..k |-> s[i]]

\* C11: _truncate_repr returns the representation as it is when its length
\* is at most max_length; when it is longer, it returns the first
\* max_length - 3 characters and "...", a string of exactly max_length
\* characters.
C11_TruncateToLimit ==
    "_truncate_repr" \in returned =>
        /\ Len(repr(obj)) <= limit => truncated = repr(obj)
        /\ Len(repr(obj)) > limit =>
              /\ truncated = FirstChars(repr(obj), limit - 3) \o <<".", ".", ".">>
              /\ Len(truncated) = limit

----------------------------------------------------------------------------
(* C12 - C16: the lines of the two reports *)

\* seq cut at every element equal to sep: the pieces between them, in order
RECURSIVE SplitOn(_, _)
SplitOn(seq, sep) ==
    LET cut == {i \in 1..Len(seq) : seq[i] = sep}
    IN IF cut = {} THEN <<seq>>
       ELSE LET first == CHOOSE i \in cut : \A j \in cut : i <= j
            IN <<SubSeq(seq, 1, first - 1)>> \o SplitOn(SubSeq(seq, first + 1, Len(seq)), sep)

\* the lines of the str returned by format_errors
ReportLines == SplitOn(report, "\n")

\* the lines format_errors_rich printed, styles removed
ConsoleLines == [i \in 1..Len(console) |-> Plain(console[i])]

\* the options in force: the ones passed, or the defaults
Opts == IF options.given THEN options.opts ELSE FormatOptions(TRUE, FALSE, FALSE, 80)

\* the header line for n records
HeaderLine(n) ==
    <<"V", "a", "l", "i", "d", "a", "t", "i", "o", "n", " ", "f", "a", "i", "l", "e", "d",
      " ", "f", "o", "r", " ">> \o error.title \o <<" ", "w", "i", "t", "h", " ">>
    \o IntStr(n) \o <<" ">>
    \o (IF n = 1 THEN <<"e", "r", "r", "o", "r">> ELSE <<"e", "r", "r", "o", "r", "s">>)

\* C12: the first line of every report is "Validation failed for <name> with
\* <N> <error|errors>", N being the number of records and the word being
\* "error" iff N is 1.
C12_HeaderPlural ==
    /\ "format_errors" \in returned => ReportLines[1] = HeaderLine(Len(error.errors))
    /\ "format_errors_rich" \in returned => ConsoleLines[1] = HeaderLine(Len(error.errors))

\* both renderers reported a failure with no record: "... with 0 errors"
C12_Witness ==
    /\ {"format_errors", "format_errors_rich"} \subseteq returned
    /\ error.errors = <<>>
    /\ report = HeaderLine(0)
    /\ SubSeq(report, Len(report) - 7, Len(report)) = <<"0", " ", "e", "r", "r", "o", "r", "s">>

\* the lines of a report cut at its empty lines: the header, then the blocks
Blocks(lines) == SplitOn(lines, <<>>)

\* the message line of record d
MessageLine(d) ==
    <<" ", " ", " ", " ">> \o d.message
    \o (IF Opts.show_error_type THEN <<" ", "[">> \o d.error_type \o <<"]">> ELSE <<>>)

\* C13: the report of format_errors is the header line followed, for each
\* record in input order, by exactly one empty line and the block of the
\* record; a block starts with the path indented by two spaces, then the
\* message indented by four, with a space and "[<error_type>]" after it iff
\* show_error_type is set; the report ends with no empty line.
C13_ReportLayout ==
    "format_errors" \in returned =>
        LET lines == ReportLines
            blocks == Blocks(lines)
            ds == explain(error)
        IN /\ Len(blocks) = 1 + Len(ds)
           /\ blocks[1] = <<HeaderLine(Len(ds))>>
           /\ \A i \in 1..Len(ds) :
                 /\ Len(blocks[i + 1]) >= 2
                 /\ blocks[i + 1][1] = <<" ", " ">> \o ds[i].path
                 /\ blocks[i + 1][2] = MessageLine(ds[i])
           /\ lines[Len(lines)] # <<>>

\* two records were reported with the error type shown
C13_Witness ==
    /\ "format_errors" \in returned
    /\ Len(error.errors) = 2
    /\ options.given /\ options.opts.show_error_type
    /\ error.errors[1]["type"] = OtherType /\ error.errors[2]["type"] = MISSING
    /\ ReportLines[3] = <<" ", " ", "a", "[", "0", "]", ".", "b">>
    /\ ReportLines[4] = <<" ", " ", " ", " ", "n", " ", "[", "t", "]">>

\* line starts with the characters of label
HasLabel(line, label) == Len(line) >= Len(label) /\ SubSeq(line, 1, Len(label)) = label

GotPrefix == <<" ", " ", " ", " ", "G", "o", "t", ":">>
SeePrefix == <<" ", " ", " ", " ", "S", "e", "e", ":">>

\* the number of lines of block that start with label
LabelCount(block, label) ==
    Cardinality({k \in 1..Len(block) : HasLabel(block[k], label)})

\* what the input line of record d shows after "Got: "
GotPayload(d) ==
    IF d.error_type = <<"m", "i", "s", "s", "i", "n", "g">>
    THEN <<"(", "m", "i", "s", "s", "i", "n", "g", ")">>
    ELSE _truncate_repr(d.input_value, Opts.input_max_length)

\* C14: with show_input set, every block has exactly one line "    Got: ...",
\* right after the message line; it shows "(missing)" iff the error type is
\* "missing", whatever the input is, and otherwise the truncated
\* representation of the input, "None" for the input None. With show_input
\* not set no block has a "Got:" line.
C14_InputLine ==
    "format_errors" \in returned =>
        LET blocks == Blocks(ReportLines)
            ds == explain(error)
        IN \A i \in 1..Len(ds) :
              /\ Opts.show_input =>
                    /\ LabelCount(blocks[i + 1], GotPrefix) = 1
                    /\ blocks[i + 1][3] = GotPrefix \o <<" ">> \o GotPayload(ds[i])
                    /\ (blocks[i + 1][3] = GotPrefix \o <<" ", "(", "m", "i", "s", "s", "i", "n", "g", ")">>)
                          <=> ds[i].error_type = <<"m", "i", "s", "s", "i", "n", "g">>
                    /\ (ds[i].input_value = PyNone /\ ds[i].error_type = OtherType
                          /\ Opts.input_max_length >= 4)
                          => blocks[i + 1][3] = GotPrefix \o <<" ", "N", "o", "n", "e">>
              /\ ~Opts.show_input => LabelCount(blocks[i + 1], GotPrefix) = 0

\* with the default options, a record of another type with the input None
\* showed "Got: None" and a missing record with a long input showed "Got: (missing)"
C14_Witness ==
    /\ "format_errors" \in returned
    /\ ~options.given
    /\ Len(error.errors) = 2
    /\ error.errors[1]["type"] = OtherType
    /\ "input" \in DOMAIN error.errors[1] /\ error.errors[1]["input"] = PyNone
    /\ error.errors[2]["type"] = MISSING
    /\ "input" \in DOMAIN error.errors[2] /\ error.errors[2]["input"] = LongInput
    /\ ReportLines[5] = <<" ", " ", " ", " ", "G", "o", "t", ":", " ", "N", "o", "n", "e">>
    /\ ReportLines[9] = GotPrefix \o <<" ", "(", "m", "i", "s", "s", "i", "n", "g", ")">>

\* the url line of the blocks of a report is as C15 says
UrlLines(blocks) ==
    LET ds == explain(error)
    IN \A i \in 1..Len(ds) :
          LET block == blocks[i + 1]
              last == block[Len(block)]
          IN IF Opts.show_url /\ ds[i].url # <<>>
             THEN /\ last = SeePrefix \o <<" ">> \o ds[i].url
                  /\ LabelCount(block, SeePrefix) = 1
                  /\ Opts.show_input =>
                        Len(block) = 4 /\ HasLabel(block[Len(block) - 1], GotPrefix)
             ELSE LabelCount(block, SeePrefix) = 0

\* C15: a block ends with the line "    See: <url>" iff show_url is set and
\* the url of the record is not empty; the url line is the last line of the
\* block, after the input line when there are both, in both reports.
C15_UrlLine ==
    /\ "format_errors" \in returned => UrlLines(Blocks(ReportLines))
    /\ "format_errors_rich" \in returned => UrlLines(Blocks(ConsoleLines))

\* with show_url and show_input set, a record with a url and one without were
\* reported by both renderers
C15_Witness ==
    /\ {"format_errors", "format_errors_rich"} \subseteq returned
    /\ options.given /\ options.opts.show_url /\ options.opts.show_input
    /\ Len(error.errors) = 2
    /\ "url" \in DOMAIN error.errors[1]
    /\ "url" \notin DOMAIN error.errors[2]
    /\ Len(ConsoleLines) = 10
    /\ ConsoleLines[6] = SeePrefix \o <<" ", "u">>
    /\ ReportLines[6] = SeePrefix \o <<" ", "u">>

\* the blocks of a report hold the path line and the message line only
BareBlocks(blocks) ==
    LET ds == explain(error)
    IN /\ Len(blocks) = 1 + Len(ds)
       /\ blocks[1] = <<HeaderLine(Len(ds))>>
       /\ \A i \in 1..Len(ds) :
             blocks[i + 1] = << <<" ", " ">> \o ds[i].path,
                               <<" ", " ", " ", " ">> \o ds[i].message >>

\* C16: with show_input, show_url and show_error_type all false, both
\* renderers write the header and, for every record, its path line and its
\* message line and nothing else, whatever input_max_length is.
C16_BareReport ==
    (options.given /\ ~options.opts.show_input /\ ~options.opts.show_url
        /\ ~options.opts.show_error_type) =>
        /\ "format_errors" \in returned => BareBlocks(Blocks(ReportLines))
        /\ "format_errors_rich" \in returned => BareBlocks(Blocks(ConsoleLines))

\* with every flag false, a missing record with a long input and a url was
\* reported by both renderers in three lines after the header
C16_Witness ==
    /\ {"format_errors", "format_errors_rich"} \subseteq returned
    /\ options.given /\ ~options.opts.show_input /\ ~options.opts.show_url
    /\ ~options.opts.show_error_type
    /\ options.opts.input_max_length = ShortMaxLength
    /\ Len(error.errors) = 1
    /\ error.errors[1]["type"] = MISSING
    /\ "input" \in DOMAIN error.errors[1] /\ error.errors[1]["input"] = LongInput
    /\ "url" \in DOMAIN error.errors[1]
    /\ Len(ReportLines) = 4 /\ Len(ConsoleLines) = 4

----------------------------------------------------------------------------
(* C17 - C20: the query layer at its edges *)

\* C17: filter_errors with no criterion returns a tuple equal to its input:
\* the same elements in the same order.
C17_NoCriteria ==
    ("filter_errors" \in returned /\ ~crit.error_type.given /\ ~crit.path_pattern.given) =>
        /\ ~result.raised
        /\ Len(result.value) = Len(errors)
        /\ \A i \in 1..Len(errors) : result.value[i] = errors[i]

\* three records, two of them equal, were filtered with no criterion
C17_Witness ==
    /\ "filter_errors" \in returned
    /\ crit = NoCrit
    /\ Len(errors) = 3
    /\ errors[1] = errors[3] /\ errors[1] # errors[2]
    /\ result.value = errors

\* the patterns of PatternArgs that are not regular expressions
InvalidPatterns == {<<"[">>, <<"a", "\\">>}

\* C18 as stated: an empty tuple gives an empty result for every error_type
\* string and every path_pattern string, never an error.
C18_EmptyAnyPattern ==
    ("filter_errors" \in returned /\ errors = <<>>) =>
        ~result.raised /\ result.value = <<>>

\* C18: an empty tuple gives an empty result and no error for every
\* error_type string and every path_pattern that is a valid regular expression.
C18_EmptyValidPattern ==
    ("filter_errors" \in returned /\ errors = <<>>
        /\ (crit.path_pattern.given => crit.path_pattern.s \notin InvalidPatterns)) =>
        ~result.raised /\ result.value = <<>>

\* the empty tuple was filtered with both criteria, the pattern "^a"
C18_Witness ==
    /\ "filter_errors" \in returned
    /\ errors = <<>>
    /\ crit.error_type = Given(MISSING)
    /\ crit.path_pattern = Given(<<"^", "a">>)
    /\ result = [raised |-> FALSE, value |-> <<>>]

\* C19: group_errors and count_errors of an empty tuple return an empty dict.
C19_EmptyMappings ==
    errors = <<>> =>
        /\ "group_errors" \in returned =>
              groups.keys = <<>> /\ DOMAIN groups.vals = {}
        /\ "count_errors" \in returned =>
              counts.keys = <<>> /\ DOMAIN counts.vals = {}

\* both were called on the empty tuple
C19_Witness ==
    /\ {"group_errors", "count_errors"} \subseteq returned
    /\ errors = <<>>
    /\ groups = EmptyDict /\ counts = EmptyDict

\* C20: with a path_pattern that is not a regular expression filter_errors
\* raises the error of re.compile and returns nothing, not even what the
\* type filter kept, and its input tuple is as it was.
C20_InvalidPatternRaises ==
    [][("filter_errors" \notin returned /\ "filter_errors" \in returned'
          /\ crit'.path_pattern.given /\ crit'.path_pattern.s \in InvalidPatterns) =>
            /\ result'.raised
            /\ result'.value = <<>>
            /\ errors' = errors]_vars

\* a tuple whose first record the type filter keeps was filtered with the pattern "["
C20_Witness ==
    /\ "filter_errors" \in returned
    /\ Len(errors) = 2
    /\ errors[1].error_type = MISSING
    /\ crit.error_type = Given(MISSING)
    /\ crit.path_pattern = Given(<<"[">>)
    /\ result.raised

----------------------------------------------------------------------------
(* C21, C29, C30: the query layer as a whole *)

\* sub occurs in s, at any position
Contains(s, sub) ==
    \E k \in 0..(Len(s) - Len(sub)) : SubSeq(s, k + 1, k + Len(sub)) = sub

\* s starts with the characters of pre
StartsWith(s, pre) == Len(s) >= Len(pre) /\ SubSeq(s, 1, Len(pre)) = pre

\* what a path has to look like to be found by pattern p
Found(p, s) ==
    IF p = <<"\\", "[", "1", "\\", "]">> THEN Contains(s, <<"[", "1", "]">>)
    ELSE IF p = <<"^", "a">> THEN StartsWith(s, <<"a">>)
    ELSE IF p = <<"b", "$">> THEN s # <<>> /\ s[Len(s)] = "b"
    ELSE IF p = <<"a", ".", "b">>
    THEN \E k \in 1..(Len(s) - 2) : s[k] = "a" /\ s[k + 2] = "b"
    ELSE \E k \in 1..(Len(s) - 1) : s[k] \in {"a", "b"} /\ s[k + 1] = "."

\* C21: path_pattern is searched for, not matched from the start: a record
\* that passes the type criterion is kept iff the pattern is found somewhere
\* in its path; "\[1\]" keeps the paths that hold "[1]" anywhere, "^a" only
\* the paths that start with "a".
C21_PatternSearched ==
    ("filter_errors" \in returned /\ crit.path_pattern.given
        /\ crit.path_pattern.s \notin InvalidPatterns) =>
        LET passes(e) == /\ crit.error_type.given => e.error_type = crit.error_type.s
                         /\ Found(crit.path_pattern.s, e.path)
        IN /\ ~result.raised
           /\ result.value = SelectSeq(errors, passes)

\* "\[1\]" kept the record at "a[1]" and dropped the one at "b"
C21_Witness ==
    /\ "filter_errors" \in returned
    /\ crit.path_pattern = Given(<<"\\", "[", "1", "\\", "]">>)
    /\ ~crit.error_type.given
    /\ Len(errors) = 2
    /\ errors[1].path = <<"b">>
    /\ errors[2].path = <<"a", "[", "1", "]">>
    /\ result.value = <<errors[2]>>

\* C29: for a pattern that compiles, filtering by both criteria in one call
\* gives what filtering by the type and then by the pattern gives, and what
\* filtering by the pattern and then by the type gives; filtering the result
\* again by the same criteria changes nothing.
C29_FilterComposes ==
    ("filter_errors" \in returned /\ ~result.raised) =>
        LET t == crit.error_type
            p == crit.path_pattern
            byType == filter_errors(errors, t, NotGiven).value
            byPath == filter_errors(errors, NotGiven, p).value
        IN /\ result.value = filter_errors(byType, NotGiven, p).value
           /\ result.value = filter_errors(byPath, t, NotGiven).value
           /\ filter_errors(result.value, t, p) = result
           /\ filter_errors(byType, t, NotGiven).value = byType
           /\ filter_errors(byPath, NotGiven, p).value = byPath

\* three records were filtered by type and pattern; each criterion alone
\* keeps two of them, both together one
C29_Witness ==
    /\ "filter_errors" \in returned
    /\ crit.error_type = Given(MISSING)
    /\ crit.path_pattern = Given(<<"^", "a">>)
    /\ Len(errors) = 3
    /\ Len(filter_errors(errors, crit.error_type, NotGiven).value) = 2
    /\ Len(filter_errors(errors, NotGiven, crit.path_pattern).value) = 2
    /\ Len(result.value) = 1

\* the sum of the values of the dict d of numbers
RECURSIVE SumVals(_, _)
SumVals(d, i) == IF i > Len(d.keys) THEN 0 ELSE d.vals[d.keys[i]] + SumVals(d, i + 1)

\* the groups of g one after the other, in the order of the keys
RECURSIVE ConcatGroups(_, _)
ConcatGroups(g, i) ==
    IF i > Len(g.keys) THEN <<>> ELSE g.vals[g.keys[i]] \o ConcatGroups(g, i + 1)

\* C30: the counts of count_errors add up to the number of records; the
\* groups of group_errors are not empty, their sizes add up to the number of
\* records, and one after the other they hold every record as often as the
\* input does and nothing else.
C30_Partition ==
    /\ "count_errors" \in returned =>
          /\ SumVals(counts, 1) = Len(errors)
          /\ \A k \in DOMAIN counts.vals : counts.vals[k] >= 1
    /\ "group_errors" \in returned =>
          LET all == ConcatGroups(groups, 1)
          IN /\ Len(all) = Len(errors)
             /\ \A k \in DOMAIN groups.vals : groups.vals[k] # <<>>
             /\ Range(all) = Range(errors)
             /\ \A x \in Range(errors) : Occurrences(all, x) = Occurrences(errors, x)

\* three records, the first and the last equal, went to two groups
C30_Witness ==
    /\ {"group_errors", "count_errors"} \subseteq returned
    /\ Len(errors) = 3
    /\ errors[1] = errors[3] /\ errors[1].path = <<"a", ".", "b">>
    /\ errors[2].path = <<"b">>
    /\ groups.keys = <<NameA, NameB>>
    /\ groups.vals[NameA] = <<errors[1], errors[1]>>
    /\ counts.vals[NameA] = 2 /\ counts.vals[NameB] = 1

----------------------------------------------------------------------------
(* C22: the fields of the records of explain *)

\* C22: record i of explain has the msg of raw record i as its message, its
\* type as its error_type and the formatted loc as its path; its context is
\* the ctx of the raw record, the empty dict when there is none; its url is
\* the url of the raw record, "" when there is none; its input_value is the
\* input of the raw record, None when there is none.
C22_FieldMapping ==
    "explain" \in returned =>
        /\ Len(details) = Len(error.errors)
        /\ \A i \in 1..Len(details) :
              LET raw == error.errors[i]
                  d == details[i]
              IN /\ d.message = raw["msg"]
                 /\ d.error_type = raw["type"]
                 /\ d.path = _format_loc(raw["loc"])
                 /\ d.context = IF "ctx" \in DOMAIN raw THEN raw["ctx"] ELSE <<>>
                 /\ d.url = IF "url" \in DOMAIN raw THEN raw["url"] ELSE <<>>
                 /\ d.input_value = IF "input" \in DOMAIN raw THEN raw["input"] ELSE PyNone

\* a raw record with loc, msg and type only and one with input, ctx and url
\* were normalized
C22_Witness ==
    /\ "explain" \in returned
    /\ Len(error.errors) = 2
    /\ DOMAIN error.errors[1] = {"loc", "msg", "type"}
    /\ DOMAIN error.errors[2] = {"loc", "msg", "type", "input", "ctx", "url"}
    /\ error.errors[2]["input"] = PyInt(0)
    /\ details[1].context = <<>> /\ details[1].url = <<>> /\ details[1].input_value = PyNone
    /\ details[2].context = Ctx /\ details[2].url = Url /\ details[2].input_value = PyInt(0)
    /\ details[2].path = <<"a", "[", "0", "]", ".", "b">>

----------------------------------------------------------------------------
(* C28: the keys of the records of explain *)

\* the first segment of l is a field name without "." and "["
PlainFirst(l) ==
    /\ l # <<>> /\ ~IsBracket(l[1])
    /\ \A k \in 1..Len(l[1].s) : l[1].s[k] \notin {".", "["}

\* the first segment of l settles the key
Keyed(l) == l = <<>> \/ IsBracket(l[1]) \/ PlainFirst(l)

\* the key the first segment of l gives
KeyOf(l) == IF l = <<>> THEN ROOT ELSE IF IsBracket(l[1]) THEN <<>> ELSE l[1].s

\* the number of raw records whose location gives the key k
KeyCount(k) ==
    Cardinality({i \in 1..Len(error.errors) : KeyOf(error.errors[i]["loc"]) = k})

\* C28: a record that explain made from a location starting with a field
\* name without "." and "[" is grouped and counted under that name, one made
\* from the empty location under "<root>", and one made from a location
\* starting with an index or with the wildcard under the empty string.
C28_KeyFromFirstSegment ==
    LET raw == error.errors
        keyed == {i \in 1..Len(raw) : Keyed(raw[i]["loc"])}
    IN /\ "group_errors" \in returned =>
             \A i \in keyed :
                /\ KeyOf(raw[i]["loc"]) \in DOMAIN groups.vals
                /\ \A k \in DOMAIN groups.vals :
                      details[i] \in Range(groups.vals[k]) <=> k = KeyOf(raw[i]["loc"])
       /\ "count_errors" \in returned =>
             \A i \in keyed :
                /\ KeyOf(raw[i]["loc"]) \in DOMAIN counts.vals
                /\ keyed = 1..Len(raw) =>
                      counts.vals[KeyOf(raw[i]["loc"])] = KeyCount(KeyOf(raw[i]["loc"]))

\* the records of the empty location and of (0,) were grouped and counted
\* under "<root>" and ""
C28_Witness ==
    /\ {"explain", "group_errors", "count_errors"} \subseteq returned
    /\ Len(error.errors) = 2
    /\ error.errors[1]["loc"] = <<>>
    /\ error.errors[2]["loc"] = <<PyInt(0)>>
    /\ groups.keys = <<ROOT, <<>> >>
    /\ groups.vals[<<>>] = <<details[2]>>
    /\ counts.vals[ROOT] = 1 /\ counts.vals[<<>>] = 1

----------------------------------------------------------------------------
(* C24: the default options *)

\* C24: FormatOptions() has show_input set, show_url and show_error_type not
\* set and input_max_length 80, and format_errors, format_error_detail and
\* format_errors_rich called without options return and print what they
\* return and print with a FormatOptions of these four values.
C24_DefaultOptions ==
    /\ DefaultOptions.show_input /\ ~DefaultOptions.show_url
    /\ ~DefaultOptions.show_error_type /\ DefaultOptions.input_max_length = 80
    /\ ~options.given =>
          /\ "format_errors" \in returned =>
                report = format_errors(error, ExplicitDefaults)
          /\ "format_error_detail" \in returned =>
                formatted = format_error_detail(detail, ExplicitDefaults)
          /\ "format_errors_rich" \in returned =>
                console = format_errors_rich(error, ExplicitDefaults, <<>>)

\* the three were called without options on a record that has an input and a
\* url: the input is shown, the url and the type are not
C24_Witness ==
    /\ {"format_errors", "format_error_detail", "format_errors_rich"} \subseteq returned
    /\ ~options.given
    /\ Len(error.errors) = 1
    /\ error.errors[1]["type"] = OtherType
    /\ "url" \in DOMAIN error.errors[1]
    /\ "input" \in DOMAIN error.errors[1] /\ error.errors[1]["input"] = LongInput
    /\ formatted = <<" ", " ", "a", "[", "0", "]", ".", "b", "\n",
                     " ", " ", " ", " ", "n", "\n",
                     " ", " ", " ", " ", "G", "o", "t", ":", " ",
                     "'", "a", "b", "c", "d", "e", "f", "'">>
    /\ Len(ReportLines) = 5 /\ Len(ConsoleLines) = 5

----------------------------------------------------------------------------
(* C23, C27: the objects after construction *)

\* C23: an assignment to any attribute of an ErrorDetail or of a
\* FormatOptions raises and changes no field and no dict, and in every step
\* every field of the two objects keeps the value it had.
C23_Frozen ==
    [][/\ attempt' # attempt => attempt'.raised /\ heap' = heap
       /\ detail' = detail
       /\ options' = options]_vars

\* an assignment to the context of the ErrorDetail raised, after to_dict had
\* returned
C23_Witness ==
    /\ attempt = [target |-> "ErrorDetail", name |-> "context", raised |-> TRUE]
    /\ Len(snaps) = 1
    /\ heap[1] = Ctx
    /\ detail.context = Ref(1)
    /\ options.opts = DefaultOptions

\* C27: whatever the caller writes to a dict that to_dict returned, to the
\* dict under its "context" included, every call of to_dict returns what the
\* first one returned, and a call made now would too.
C27_ReturnedDictDetached ==
    snaps # <<>> =>
        /\ \A i \in 1..Len(snaps) : snaps[i] = snaps[1]
        /\ to_dict(DeepDetail(detail, heap)) = snaps[1]

----------------------------------------------------------------------------
(* C25: calls running at the same time *)

\* what the call of frame f returns when it runs alone
Alone(f) ==
    IF f.fn = "explain" THEN explain(f.arg)
    ELSE IF f.fn = "filter_errors"
    THEN filter_errors(f.arg, f.opt.error_type, f.opt.path_pattern)
    ELSE IF f.fn = "group_errors" THEN group_errors(f.arg)
    ELSE IF f.fn = "count_errors" THEN count_errors(f.arg)
    ELSE format_errors(f.arg, f.opt)

\* C25: however the steps of two calls of explain, filter_errors,
\* group_errors, count_errors and format_errors are interleaved, each call
\* returns what it returns when it runs alone, and no step of a thread
\* changes the frame of the other.
C25_CallsIndependent ==
    [][/\ \A t \in Threads : frames'[t].done => frames'[t].result = Alone(frames'[t])
       /\ \A t \in Threads :
             frames'[t] # frames[t] => \A u \in Threads \ {t} : frames'[u] = frames[u]]_vars

\* thread 2 has run a whole group_errors call and returned two groups while
\* thread 1 is in the middle of another one, with one record in one group
C25_Witness ==
    /\ frames[1].fn = "group_errors" /\ frames[2].fn = "group_errors"
    /\ Len(frames[1].arg) = 2 /\ Len(frames[2].arg) = 2
    /\ frames[1].arg # frames[2].arg
    /\ ~frames[1].done /\ frames[1].i = 2 /\ Len(frames[1].acc.keys) = 1
    /\ frames[2].done
    /\ Len(frames[2].result.keys) = 2
    /\ frames[2].result = group_errors(frames[2].arg)

----------------------------------------------------------------------------
(* C26: two reports on one console *)

\* the prints of the call of frame f when it runs alone on an empty console
Report(f) == format_errors_rich(f.arg, f.opt, <<>>)

\* C26: when two calls of format_errors_rich on one console have both
\* returned, the console holds the prints of one report and then the prints
\* of the other, none of one report between two of the other.
C26_ReportsContiguous ==
    (frames[1].done /\ frames[2].done) =>
        \/ console = Report(frames[1]) \o Report(frames[2])
        \/ console = Report(frames[2]) \o Report(frames[1])

====
